---- MODULE Spec2Model ----
(***************************************************************************)
(* slidemaster: the slide renderer (three variants kept in                 *)
(* src/components/SlideRenderer.tsx), the deck viewer with its raster (PDF)*)
(* and native (PPTX) exporters, modelled as a state machine.               *)
(*                                                                         *)
(* The React component's state is the model's state.  A state setter       *)
(* changes the state at once; the handlers and the DOM attributes keep the *)
(* values of the last committed render until Commit runs.                  *)
(***************************************************************************)
EXTENDS Integers, Sequences, FiniteSets, TLC

\* ------------------------------------------------------------------ bounds
MaxSlides == 3
MaxExports == 2
ThemeMaxSlides == 2

\* ------------------------------------------------------------- data model
Undefined == "undefined"

\* JavaScript truthiness of an optional string.
Truthy(x) == x \notin {Undefined, ""}

\* An absent master (masters.section may be missing from the design system).
NoMaster ==
  [background |-> Undefined, backgroundImage |-> Undefined,
   backgroundVideo |-> Undefined, textColor |-> Undefined,
   accentColor |-> Undefined]

SlideTypes ==
  {"title", "section", "content", "splitLeft", "splitRight", "quote", "bigNumber"}

ViewerTypes == {"section", "content"}

RECURSIVE SeqsOf(_, _)
SeqsOf(S, n) ==
  IF n = 0 THEN {<<>>}
  ELSE {Append(s, x) : s \in SeqsOf(S, n - 1), x \in S}

\* A deck: slide k (from 0) has id k, a declared type and a title.
DeckOf(types) ==
  [k \in 1..Len(types) |->
     [id |-> k - 1, type |-> types[k], title |-> "Title " \o ToString(k - 1)]]

DecksUpTo(T, n) == {DeckOf(ts) : ts \in UNION {SeqsOf(T, m) : m \in 1..n}}

\* The viewer's decks: every length, the first slide of either type, the
\* others content slides.
ViewerDecks(n) ==
  {DeckOf([k \in 1..m |-> IF k = 1 THEN t ELSE "content"]) :
     m \in 1..n, t \in ViewerTypes}

MasterStylesWith(accent) ==
  [background : {"#112233"},
   backgroundImage : {Undefined, "data:image"},
   backgroundVideo : {Undefined, "data:video"},
   textColor : {"#000000", "#FFFFFF"},
   accentColor : {accent}]

Masters ==
  [title : MasterStylesWith("#FF0000"),
   section : MasterStylesWith("#00FF00") \cup {NoMaster},
   default : MasterStylesWith("#0000FF")]

PlainMaster(accent) ==
  [background |-> "#112233", backgroundImage |-> Undefined,
   backgroundVideo |-> Undefined, textColor |-> "#000000", accentColor |-> accent]

ViewerMasters ==
  [title : {PlainMaster("#FF0000")},
   section : {PlainMaster("#00FF00"), NoMaster},
   default : {PlainMaster("#0000FF")}]

\* logo.placement and logo.images; an absent image is undefined.
LogoSpecs ==
  [placement : {"none", "top-left"},
   images : [light : {Undefined, "data:light"}, dark : {Undefined, "data:dark"}]]

DefaultLogo ==
  [placement |-> "top-left", images |-> [light |-> "data:light", dark |-> "data:dark"]]

\* settings.endSlide; an unset title or subtitle is undefined.
PresentationSettings ==
  [endSlide : [title : {Undefined, "Danke"}, subtitle : {Undefined, "Ihr Team"}]]

DefaultSettings == [endSlide |-> [title |-> Undefined, subtitle |-> Undefined]]

\* system.colors.accent, the palette accent.
Colors == [accent |-> "#ABCDEF"]

\* The masters of the branding checks: a background image or none, and a
\* text color that is black, white (in either case of the hex digits) or a
\* light grey.
TextColors == {"#000000", "#FFFFFF", "#ffffff", "#EEEEEE"}

BrandStylesWith(accent) ==
  [background : {"#112233"},
   backgroundImage : {Undefined, "data:image"},
   backgroundVideo : {Undefined},
   textColor : TextColors,
   accentColor : {accent}]

BrandMasters ==
  [title : BrandStylesWith("#FF0000"),
   section : BrandStylesWith("#00FF00") \cup {NoMaster},
   default : BrandStylesWith("#0000FF")]

\* The masters of the native exporter's background checks: a background that
\* is a hex color or a gradient expression, and a background image that is
\* absent, an embedded data URL or a remote URL.
Backgrounds == {"#112233", "linear-gradient(135deg, #112233, #445566)"}

BackgroundImages == {Undefined, "data:image", "https://cdn.example/bg.png"}

NativeStylesWith(accent) ==
  [background : Backgrounds,
   backgroundImage : BackgroundImages,
   backgroundVideo : {Undefined},
   textColor : {"#000000", "#FFFFFF"},
   accentColor : {accent}]

NativeMasters ==
  [title : NativeStylesWith("#FF0000"),
   section : NativeStylesWith("#00FF00") \cup {NoMaster},
   default : NativeStylesWith("#0000FF")]

DesignSystemsWith(M, L, S) ==
  [name : {"Brand"}, colors : {Colors}, logo : L, masters : M, settings : S]

DesignSystems(M) == DesignSystemsWith(M, {DefaultLogo}, {DefaultSettings})

Min(a, b) == IF a < b THEN a ELSE b
Max(a, b) == IF a > b THEN a ELSE b

\* ------------------------------------------------------------------ state
VARIABLES
  app,               \* the App component: its state, isLoading and error
  review,            \* the DesignReview component's local state
  slides,            \* props.slides
  system,            \* props.system
  mounted,           \* the DeckViewer is on screen (onClose not yet called)
  currentIndex,      \* useState(0)
  isFullscreen,      \* useState(false)
  fullscreenElement, \* document.fullscreenElement is set
  isExportingPDF,    \* useState(false)
  isExportingPPTX,   \* useState(false)
  rendered,          \* the state values the last committed render captured
  exports            \* the accepted exports, in the order they were accepted

vars ==
  <<app, review, slides, system, mounted, currentIndex, isFullscreen, fullscreenElement,
    isExportingPDF, isExportingPPTX, rendered, exports>>

total == Len(slides)

\* --------------------------------------------------------- theme resolver
isTitleSlide(slide) == slide.type = "title"

isSectionSlide(slide) == slide.type = "section"

\* Mutant: the last index alone makes an end slide, a one-slide deck included.
isEndSlide_AnyLast(index, n) == index = n - 1

isEndSlide(index, n) == index = n - 1 /\ n > 1

\* Mutant: the section test comes before the title and end-slide test.
masterStyle1_SectionFirst(slide, index, n, masters) ==
  IF isSectionSlide(slide)
    THEN (IF masters.section # NoMaster THEN masters.section ELSE masters.title)
  ELSE IF isTitleSlide(slide) \/ isEndSlide(index, n) THEN masters.title
  ELSE masters.default

\* Mutant: a section slide without a section master gets the default master.
masterStyle1_NoFallback(slide, index, n, masters) ==
  IF isTitleSlide(slide) \/ isEndSlide(index, n) THEN masters.title
  ELSE IF isSectionSlide(slide)
    THEN (IF masters.section # NoMaster THEN masters.section ELSE masters.default)
  ELSE masters.default

masterStyle1(slide, index, n, masters) ==
  IF isTitleSlide(slide) \/ isEndSlide(index, n) THEN masters.title
  ELSE IF isSectionSlide(slide)
    THEN (IF masters.section # NoMaster THEN masters.section ELSE masters.title)
  ELSE masters.default

useTitleMaster(slide, index, n) == isTitleSlide(slide) \/ isEndSlide(index, n)

useSectionMaster(slide) == isSectionSlide(slide)

masterStyle2(slide, index, n, masters) ==
  IF useTitleMaster(slide, index, n) THEN masters.title
  ELSE IF useSectionMaster(slide)
    THEN (IF masters.section # NoMaster THEN masters.section ELSE masters.title)
  ELSE masters.default

masterStyle3(slide, index, n, masters) ==
  IF useTitleMaster(slide, index, n) THEN masters.title
  ELSE IF useSectionMaster(slide)
    THEN (IF masters.section # NoMaster THEN masters.section ELSE masters.title)
  ELSE masters.default

Variants == {1, 2, 3}

masterStyle(v, slide, index, n, masters) ==
  CASE v = 1 -> masterStyle1(slide, index, n, masters)
    [] v = 2 -> masterStyle2(slide, index, n, masters)
    [] v = 3 -> masterStyle3(slide, index, n, masters)

hasBackgroundImage(master) ==
  Truthy(master.backgroundImage) \/ Truthy(master.backgroundVideo)

contentColor1(master) ==
  IF hasBackgroundImage(master) THEN "#FFFFFF"
  ELSE IF Truthy(master.textColor) THEN master.textColor ELSE "#000000"

textShadow1(master) ==
  IF hasBackgroundImage(master) THEN "0 2px 4px rgba(0,0,0,0.6)" ELSE "none"

\* Variant 2 sets the slide's color to white whatever the master says and
\* has no text shadow; variant 3 uses the master's textColor and no shadow.
slideStyleColor2(master) == "#FFFFFF"

slideStyleColor3(master) == master.textColor

contentColor(v, master) ==
  CASE v = 1 -> contentColor1(master)
    [] v = 2 -> slideStyleColor2(master)
    [] v = 3 -> slideStyleColor3(master)

textShadow(v, master) ==
  CASE v = 1 -> textShadow1(master)
    [] v = 2 -> "none"
    [] v = 3 -> "none"

\* ------------------------------------------------------------------- logo
\* String.prototype.toUpperCase on the colors of the model.
ToUpperCase(c) == IF c = "#ffffff" THEN "#FFFFFF" ELSE c

\* a || b on optional strings.
Or(a, b) == IF Truthy(a) THEN a ELSE b

\* parseInt(hex.substring(1), 16) split into its red, green and blue bytes.
Rgb(hex) ==
  CASE ToUpperCase(hex) = "#FFFFFF" -> [r |-> 255, g |-> 255, b |-> 255]
    [] hex = "#EEEEEE" -> [r |-> 238, g |-> 238, b |-> 238]
    [] hex = "#000000" -> [r |-> 0, g |-> 0, b |-> 0]

\* luma = 0.2126 r + 0.7152 g + 0.0722 b > 128, in ten-thousandths.
isColorLight(hex) ==
  LET c == Rgb(hex)
  IN 2126 * c.r + 7152 * c.g + 722 * c.b > 128 * 10000

\* What a Logo component renders: the chosen asset and the CSS filter on it;
\* no asset when the component returns null.
NoLogoRendered == [src |-> Undefined, filter |-> "none"]

\* Variant 1: the asset follows the resolved text color; only the dark
\* asset standing in for the light one is filtered.
Logo1(color, logo) ==
  IF logo.placement = "none" THEN NoLogoRendered
  ELSE LET useLightLogo == ToUpperCase(color) = "#FFFFFF"
           specificLogo == IF useLightLogo THEN logo.images.light ELSE logo.images.dark
           fallbackLogo == IF useLightLogo THEN logo.images.dark ELSE logo.images.light
           logoSrc == Or(specificLogo, fallbackLogo)
       IN IF ~Truthy(logoSrc) THEN NoLogoRendered
          ELSE [src |-> logoSrc,
                filter |-> IF useLightLogo /\ ~Truthy(specificLogo) /\ Truthy(fallbackLogo)
                             THEN "brightness(0) invert(1)" ELSE "none"]

\* Variant 2: the light asset first, always inverted.
Logo2(logo) ==
  IF logo.placement = "none" THEN NoLogoRendered
  ELSE LET logoSrc == Or(logo.images.light, logo.images.dark)
       IN IF Truthy(logoSrc)
            THEN [src |-> logoSrc, filter |-> "brightness(0) invert(1)"]
            ELSE NoLogoRendered

\* Variant 3: the asset follows the brightness of the master's text color;
\* a stand-in asset is filtered in both directions.
Logo3(master, logo) ==
  IF logo.placement = "none" THEN NoLogoRendered
  ELSE LET isTextLight == isColorLight(master.textColor)
           logoSrc == IF isTextLight THEN Or(logo.images.light, logo.images.dark)
                      ELSE Or(logo.images.dark, logo.images.light)
       IN IF Truthy(logoSrc)
            THEN [src |-> logoSrc,
                  filter |-> IF ~Truthy(logo.images.light) /\ isTextLight
                               THEN "brightness(0) invert(1)"
                             ELSE IF ~Truthy(logo.images.dark) /\ ~isTextLight
                               THEN "brightness(0)"
                             ELSE "none"]
            ELSE NoLogoRendered

Logo(v, master, logo) ==
  CASE v = 1 -> Logo1(contentColor1(master), logo)
    [] v = 2 -> Logo2(logo)
    [] v = 3 -> Logo3(master, logo)

\* The background the slide's root element gets: the master's image when it
\* has one, else its background.
slideBackground(master) ==
  IF Truthy(master.backgroundImage) THEN master.backgroundImage ELSE master.background

\* The color of a slide's decorations (the section bar, the bullet markers,
\* the quote mark, the focal numeral): masterStyle.accentColor in all three
\* variants.
accentStyle(master) == master.accentColor

\* ---------------------------------------------------------- layout engine
\* The layout is named by the branch of renderContent that returns.
renderContent1(slide, index, n) ==
  IF isEndSlide(index, n) THEN "end"
  ELSE CASE slide.type = "title" -> "title"
         [] slide.type = "section" -> "section"
         [] slide.type = "quote" -> "quote"
         [] slide.type = "bigNumber" -> "bigNumber"
         [] OTHER -> "content"

renderContent2(slide, index, n) ==
  CASE slide.type = "title" -> "title"
    [] slide.type = "section" -> "section"
    [] OTHER -> IF isEndSlide(index, n) THEN "end" ELSE "content"

renderContent3(slide, index, n) ==
  CASE slide.type = "title" -> "title"
    [] slide.type = "section" -> "section"
    [] slide.type = "splitLeft" -> "splitLeft"
    [] slide.type = "splitRight" -> "splitRight"
    [] slide.type = "quote" -> "quote"
    [] slide.type = "bigNumber" -> "bigNumber"
    [] OTHER -> IF isEndSlide(index, n) THEN "end" ELSE "content"

renderContent(v, slide, index, n) ==
  CASE v = 1 -> renderContent1(slide, index, n)
    [] v = 2 -> renderContent2(slide, index, n)
    [] v = 3 -> renderContent3(slide, index, n)

\* Mutant: the caption is hidden on title and end slides only.
pageNumber1_ShownOnSection(slide, index, n) ==
  ~isTitleSlide(slide) /\ ~isEndSlide(index, n)

pageNumber1(slide, index, n) ==
  ~isTitleSlide(slide) /\ ~isSectionSlide(slide) /\ ~isEndSlide(index, n)

Footer(slide, index, n) ==
  ~(useTitleMaster(slide, index, n) \/ useSectionMaster(slide))

pageNumber(v, slide, index, n) ==
  IF v = 1 THEN pageNumber1(slide, index, n) ELSE Footer(slide, index, n)

\* The end-slide block: its heading and the line under it (none when
\* nothing is rendered there).  Variant 1 prints fixed texts; variants 2 and
\* 3 print the slide's own title and its content lines, of which the slides
\* of the model have none.
endSlide1(slide, settings) ==
  [title |-> "Vielen Dank!", subtitle |-> "Ihr hurra.com Team"]

endSlide2(slide, settings) == [title |-> slide.title, subtitle |-> Undefined]

endSlide3(slide, settings) == [title |-> slide.title, subtitle |-> Undefined]

endSlide(v, slide, settings) ==
  CASE v = 1 -> endSlide1(slide, settings)
    [] v = 2 -> endSlide2(slide, settings)
    [] v = 3 -> endSlide3(slide, settings)

\* {index + 1} / {total}
pageNumberText(index, n) == ToString(index + 1) \o " / " \o ToString(n)

\* The caption a variant renders: its text, or nothing.
caption(v, slide, index, n) ==
  IF pageNumber(v, slide, index, n) THEN pageNumberText(index, n) ELSE Undefined

\* -------------------------------------------------------- native exporter
isEnd(index, n) == index = n - 1 /\ n > 1

pptxMaster(slide, index, n, masters) ==
  IF isTitleSlide(slide) \/ isEnd(index, n) THEN masters.title
  ELSE IF isSectionSlide(slide) THEN masters.section
  ELSE masters.default

\* master.background on an undefined master is a TypeError.
pptxThrows(slide, index, n, masters) ==
  pptxMaster(slide, index, n, masters) = NoMaster

pptxContent(slide, index, n) ==
  IF isTitleSlide(slide) THEN "title"
  ELSE IF isSectionSlide(slide) THEN "section"
  ELSE IF isEnd(index, n) THEN "end"
  ELSE IF slide.type = "bigNumber" THEN "bigNumber"
  ELSE IF slide.type = "quote" THEN "quote"
  ELSE "content"

\* The isEnd branch: one text object with a fixed text.
pptxEndSlide(slide, settings) == [title |-> "Vielen Dank!", subtitle |-> Undefined]

\* const accentColor = system.colors.accent || '#FF0000', used for the
\* section bar, the bullets, the quote mark and the focal numeral.
pptxAccentColor(sys) == Or(sys.colors.accent, "#FF0000")

pptxPageNumber(slide, index, n) == ~isTitleSlide(slide) /\ ~isEnd(index, n)

\* String.prototype.startsWith on the strings of the model.
startsWith(s, prefix) ==
  CASE prefix = "#" ->
         s \in {"#112233", "#000000", "#FFFFFF", "#ffffff", "#EEEEEE", "#ABCDEF",
                "#FF0000", "#00FF00", "#0000FF"}
    [] prefix = "data:" -> s \in {"data:image", "data:video", "data:light", "data:dark"}

\* const getHex = (color) => color.replace('#', '')
getHex(color) ==
  CASE color = "#112233" -> "112233"
    [] color = "#000000" -> "000000"
    [] color = "#FFFFFF" -> "FFFFFF"
    [] color = "#ffffff" -> "ffffff"
    [] color = "#EEEEEE" -> "EEEEEE"
    [] OTHER -> color

\* pptxSlide.background: a color (hex digits without #) or embedded image data.
pptxBackground(master) ==
  LET slideBg == master.background
  IN IF startsWith(slideBg, "#")
       THEN [color |-> getHex(slideBg), data |-> Undefined]
     ELSE IF Truthy(master.backgroundImage)
       THEN (IF startsWith(master.backgroundImage, "data:")
               THEN [color |-> Undefined, data |-> master.backgroundImage]
               ELSE [color |-> "000000", data |-> Undefined])
     ELSE [color |-> "FFFFFF", data |-> Undefined]

\* const textColor = master.textColor || '#000000', the color of every text
\* object of the slide.
pptxTextColor(master) == Or(master.textColor, "#000000")

\* The logo image added to the slide, or none.
pptxLogo(master, logo) ==
  IF logo.placement = "none" THEN Undefined
  ELSE LET useLightLogo == ToUpperCase(pptxTextColor(master)) = "#FFFFFF"
           logoData == IF useLightLogo THEN logo.images.light ELSE logo.images.dark
           fallback == IF useLightLogo THEN logo.images.dark ELSE logo.images.light
       IN Or(logoData, fallback)

\* The page-number text object of a slide: its text, or nothing.
pptxCaption(slide, index, n) ==
  IF pptxPageNumber(slide, index, n)
    THEN ToString(index + 1) \o " / " \o ToString(n)
    ELSE Undefined

\* ---------------------------------------------------------- design review
\* The two DesignReview components of src/components/DesignReview.tsx.
ReviewVariants == {1, 2}

\* The state a DesignReview starts from when it is mounted with props.system:
\* the first keeps the two logo images, the second a copy of the system.
MountReview(v, sys) ==
  [variant |-> v, lightLogo |-> sys.logo.images.light,
   darkLogo |-> sys.logo.images.dark, localSystem |-> sys]

\* { ...section, background: section?.background || title.background, ... }
\* of the first component's handleGenerateClick; spreading an absent section
\* contributes no field.
mergedSection(masters) ==
  [masters.section EXCEPT
     !.background = Or(masters.section.background, masters.title.background),
     !.textColor = Or(masters.section.textColor, masters.title.textColor),
     !.accentColor = Or(masters.section.accentColor, masters.title.accentColor)]

\* The updatedSystem the first component hands to onConfirm.
updatedSystem(sys, lightLogo, darkLogo) ==
  [sys EXCEPT !.logo.images = [light |-> lightLogo, dark |-> darkLogo],
              !.masters.section = mergedSection(sys.masters)]

\* ------------------------------------------------------------ deck viewer
\* const isExporting = isExportingPDF || isExportingPPTX, as the handlers and
\* the disabled attributes of the last committed render see it.
isExporting == rendered.pdf \/ rendered.pptx

Current == [pdf |-> isExportingPDF, pptx |-> isExportingPPTX, fullscreen |-> isFullscreen]

CommitPending == mounted /\ rendered # Current

\* {isExportingPDF && <div ref={exportContainerRef}>...}
exportContainerRef == mounted /\ rendered.pdf

NewExport(kind, pc, doc) ==
  [kind |-> kind, pc |-> pc, i |-> 0, doc |-> doc,
   saved |-> FALSE, alerted |-> FALSE, error |-> "none", loaded |-> FALSE]

InFlight(e) == e.pc \in {"timer", "canvas", "writing"}

\* A state setter called after the component was unmounted changes nothing.
SetPDF(b) == isExportingPDF' = IF mounted THEN b ELSE isExportingPDF

SetPPTX(b) == isExportingPPTX' = IF mounted THEN b ELSE isExportingPPTX

InitWith(decks, systems) ==
  /\ app = [variant |-> 1, state |-> "presentation", isLoading |-> FALSE,
            error |-> Undefined, outcome |-> "ok"]
  /\ slides \in decks
  /\ system \in systems
  /\ review = MountReview(1, system)
  /\ mounted = TRUE
  /\ currentIndex = 0
  /\ isFullscreen = FALSE
  /\ fullscreenElement = FALSE
  /\ isExportingPDF = FALSE
  /\ isExportingPPTX = FALSE
  /\ rendered = [pdf |-> FALSE, pptx |-> FALSE, fullscreen |-> FALSE]
  /\ exports = <<>>

Init == InitWith(ViewerDecks(MaxSlides), DesignSystems(ViewerMasters))

\* React commits the pending render: handlers, listeners and DOM attributes
\* now see the current state.
Commit ==
  /\ CommitPending
  /\ rendered' = Current
  /\ UNCHANGED <<app, review, slides, system, mounted, currentIndex, isFullscreen,
                 fullscreenElement, isExportingPDF, isExportingPPTX, exports>>

\* onClose: the App leaves the presentation and React unmounts the viewer;
\* its state is discarded (a viewer mounted later starts from useState's
\* initial values).
onClose ==
  /\ app' = [app EXCEPT !.state = "review"]
  /\ review' = MountReview(review.variant, system)
  /\ mounted' = FALSE
  /\ currentIndex' = 0
  /\ isFullscreen' = FALSE
  /\ isExportingPDF' = FALSE
  /\ isExportingPPTX' = FALSE
  /\ rendered' = [pdf |-> FALSE, pptx |-> FALSE, fullscreen |-> FALSE]

Keys == {"ArrowRight", "ArrowLeft", "Escape", " "}

\* Mutant: ArrowRight wraps around to the first slide after the last.
handleKeyDown_Wrap(key) ==
  /\ mounted
  /\ LET keep == UNCHANGED <<app, review, mounted, isExportingPDF, isExportingPPTX,
                             rendered>>
     IN IF isExporting THEN
          UNCHANGED <<currentIndex, isFullscreen>> /\ keep
        ELSE IF key = "ArrowRight" \/ key = "Space" THEN
          /\ currentIndex' = (currentIndex + 1) % total
          /\ UNCHANGED isFullscreen /\ keep
        ELSE IF key = "ArrowLeft" THEN
          /\ currentIndex' = Max(currentIndex - 1, 0)
          /\ UNCHANGED isFullscreen /\ keep
        ELSE IF key = "Escape" THEN
          IF rendered.fullscreen THEN
            /\ isFullscreen' = FALSE
            /\ UNCHANGED currentIndex /\ keep
          ELSE onClose
        ELSE UNCHANGED <<currentIndex, isFullscreen>> /\ keep
  /\ UNCHANGED <<slides, system, fullscreenElement, exports>>

\* Mutant: Escape closes the deck whether or not fullscreen is active.
handleKeyDown_EscapeAlwaysCloses(key) ==
  /\ mounted
  /\ LET keep == UNCHANGED <<app, review, mounted, isExportingPDF, isExportingPPTX,
                             rendered>>
     IN IF isExporting THEN
          UNCHANGED <<currentIndex, isFullscreen>> /\ keep
        ELSE IF key = "ArrowRight" \/ key = "Space" THEN
          /\ currentIndex' = Min(currentIndex + 1, total - 1)
          /\ UNCHANGED isFullscreen /\ keep
        ELSE IF key = "ArrowLeft" THEN
          /\ currentIndex' = Max(currentIndex - 1, 0)
          /\ UNCHANGED isFullscreen /\ keep
        ELSE IF key = "Escape" THEN onClose
        ELSE UNCHANGED <<currentIndex, isFullscreen>> /\ keep
  /\ UNCHANGED <<slides, system, fullscreenElement, exports>>

handleKeyDown(key) ==
  /\ mounted
  /\ LET keep == UNCHANGED <<app, review, mounted, isExportingPDF, isExportingPPTX,
                             rendered>>
     IN IF isExporting THEN
          UNCHANGED <<currentIndex, isFullscreen>> /\ keep
        ELSE IF key = "ArrowRight" \/ key = "Space" THEN
          /\ currentIndex' = Min(currentIndex + 1, total - 1)
          /\ UNCHANGED isFullscreen /\ keep
        ELSE IF key = "ArrowLeft" THEN
          /\ currentIndex' = Max(currentIndex - 1, 0)
          /\ UNCHANGED isFullscreen /\ keep
        ELSE IF key = "Escape" THEN
          IF rendered.fullscreen THEN
            /\ isFullscreen' = FALSE
            /\ UNCHANGED currentIndex /\ keep
          ELSE onClose
        ELSE UNCHANGED <<currentIndex, isFullscreen>> /\ keep
  /\ UNCHANGED <<slides, system, fullscreenElement, exports>>

KeyDown == \E key \in Keys : handleKeyDown(key)

toggleFullscreen ==
  /\ mounted
  /\ IF ~fullscreenElement THEN
       /\ fullscreenElement' = TRUE
       /\ isFullscreen' = TRUE
     ELSE
       /\ fullscreenElement' = FALSE
       /\ isFullscreen' = FALSE
  /\ UNCHANGED <<app, review, slides, system, mounted, currentIndex, isExportingPDF,
                 isExportingPPTX, rendered, exports>>

\* The platform leaves fullscreen by itself (the browser's own Escape or F11
\* handling, a tab switch): document.fullscreenElement becomes null.  The
\* viewer registers no fullscreenchange listener, so nothing else changes.
fullscreenExit ==
  /\ fullscreenElement
  /\ fullscreenElement' = FALSE
  /\ UNCHANGED <<app, review, slides, system, mounted, currentIndex, isFullscreen,
                 isExportingPDF, isExportingPPTX, rendered, exports>>

\* The toolbar's X button: onClick={onClose}.
ClickClose ==
  /\ mounted
  /\ onClose
  /\ UNCHANGED <<slides, system, fullscreenElement, exports>>

\* The previous button: disabled at index 0, else Math.max(p - 1, 0).
ClickPrevious ==
  /\ mounted
  /\ currentIndex # 0
  /\ currentIndex' = Max(currentIndex - 1, 0)
  /\ UNCHANGED <<app, review, slides, system, mounted, isFullscreen, fullscreenElement,
                 isExportingPDF, isExportingPPTX, rendered, exports>>

\* The next button: disabled at the last index, else Math.min(p + 1, length - 1).
ClickNext ==
  /\ mounted
  /\ currentIndex # total - 1
  /\ currentIndex' = Min(currentIndex + 1, total - 1)
  /\ UNCHANGED <<app, review, slides, system, mounted, isFullscreen, fullscreenElement,
                 isExportingPDF, isExportingPPTX, rendered, exports>>

\* A filmstrip thumbnail: one button per slide, setCurrentIndex(idx).
ClickThumbnail ==
  /\ mounted
  /\ \E idx \in 0..(total - 1) : currentIndex' = idx
  /\ UNCHANGED <<app, review, slides, system, mounted, isFullscreen, fullscreenElement,
                 isExportingPDF, isExportingPPTX, rendered, exports>>

\* ---------------------------------------------------------- raster export
\* The click on "Download PDF": the handler's guard, the flag and the timer.
\* The button is disabled, and the handler returns, when the committed
\* render saw an export in progress.
handleExportPDF ==
  /\ mounted
  /\ ~isExporting
  /\ Len(exports) < MaxExports
  /\ SetPDF(TRUE)
  /\ exports' = Append(exports, NewExport("pdf", "timer", <<>>))
  /\ UNCHANGED <<app, review, slides, system, mounted, currentIndex, isFullscreen,
                 fullscreenElement, isExportingPPTX, rendered>>

\* new jsPDF(...) holds one empty page; addPage appends one; addImage draws
\* on the last page.
jsPDF == << <<>> >>

addPage(pdf) == Append(pdf, <<>>)

addImage(pdf, img) == [pdf EXCEPT ![Len(pdf)] = Append(@, img)]

\* Mutant: addPage runs before every image, the first included.
loopBody_AlwaysAddPage(pdf, i) == addImage(addPage(pdf), slides[i + 1].id)

\* One pass of the loop body after html2canvas resolved for child i.
loopBody(pdf, i) == addImage(IF i > 0 THEN addPage(pdf) ELSE pdf, slides[i + 1].id)

\* Mutant: the flag is not reset when the export ends.
finallyPDF_Skipped == UNCHANGED isExportingPDF

\* The finally blocks: setIsExportingPDF(false), setIsExportingPPTX(false).
finallyPDF == SetPDF(FALSE)

finallyPPTX == SetPPTX(FALSE)

\* Mutant: the error is swallowed without telling the user.
catch_Silent(e, error) ==
  [e EXCEPT !.pc = "done", !.error = error, !.doc = <<>>, !.i = 0,
            !.loaded = FALSE]

\* The catch block: console.error and alert.
catch(e, error) ==
  [e EXCEPT !.pc = "done", !.alerted = TRUE, !.error = error, !.doc = <<>>,
            !.i = 0, !.loaded = FALSE]

\* The timer's callback up to its first await.  React has committed the
\* render that followed the click long before the 2500 ms timer fires.
TimerFire ==
  \E k \in DOMAIN exports :
    /\ exports[k].pc = "timer"
    /\ ~CommitPending
    /\ IF ~exportContainerRef THEN
         \* return inside try: only the finally block runs
         /\ exports' = [exports EXCEPT ![k].pc = "done", ![k].loaded = FALSE]
         /\ finallyPDF
       ELSE
         /\ exports' = [exports EXCEPT ![k].pc = "canvas", ![k].doc = jsPDF, ![k].i = 0]
         /\ UNCHANGED isExportingPDF
    /\ UNCHANGED <<app, review, slides, system, mounted, currentIndex, isFullscreen,
                   fullscreenElement, isExportingPPTX, rendered>>

\* html2canvas(slideEl) settles for child i: it rejects (or toDataURL
\* throws), or the page is added and the loop goes on to the next await
\* or to pdf.save, which may throw.
CanvasDone ==
  \E k \in DOMAIN exports, ok \in BOOLEAN, saveOk \in BOOLEAN :
    /\ exports[k].pc = "canvas"
    /\ LET e == exports[k]
           pdf == loopBody(e.doc, e.i)
       IN IF ~ok THEN
            /\ exports' = [exports EXCEPT ![k] = catch(e, "canvas")]
            /\ finallyPDF
          ELSE IF e.i + 1 < total THEN
            /\ exports' = [exports EXCEPT ![k].doc = pdf, ![k].i = e.i + 1]
            /\ UNCHANGED isExportingPDF
          ELSE IF saveOk THEN
            /\ exports' = [exports EXCEPT ![k].doc = pdf, ![k].i = e.i + 1,
                                          ![k].pc = "done", ![k].saved = TRUE,
                                          ![k].loaded = FALSE]
            /\ finallyPDF
          ELSE
            /\ exports' = [exports EXCEPT
                             ![k] = catch([e EXCEPT !.doc = pdf, !.i = e.i + 1], "save")]
            /\ finallyPDF
    /\ UNCHANGED <<app, review, slides, system, mounted, currentIndex, isFullscreen,
                   fullscreenElement, isExportingPPTX, rendered>>

\* The images and videos of the off-screen render of export k finish
\* loading, at any time after the container was mounted and before it is
\* removed again.
AssetsLoaded ==
  \E k \in DOMAIN exports :
    /\ exports[k].kind = "pdf"
    /\ exports[k].pc \in {"timer", "canvas"}
    /\ exportContainerRef
    /\ ~exports[k].loaded
    /\ exports' = [exports EXCEPT ![k].loaded = TRUE]
    /\ UNCHANGED <<app, review, slides, system, mounted, currentIndex, isFullscreen,
                   fullscreenElement, isExportingPDF, isExportingPPTX, rendered>>

\* ---------------------------------------------------------- native export
\* slides.forEach: one addSlide per slide, unless a master is undefined.
RECURSIVE forEachSlide(_, _)
forEachSlide(doc, k) ==
  IF k > total THEN [doc |-> doc, threw |-> FALSE]
  ELSE IF pptxThrows(slides[k], k - 1, total, system.masters)
    THEN [doc |-> doc, threw |-> TRUE]
  ELSE forEachSlide(Append(doc, <<slides[k].id>>), k + 1)

\* The click on "PPTX": the synchronous part of the handler, up to
\* await pptx.writeFile or, when building a slide throws, through catch and
\* finally.
handleExportPPTX ==
  /\ mounted
  /\ ~isExporting
  /\ Len(exports) < MaxExports
  /\ LET built == forEachSlide(<<>>, 1)
         e == NewExport("pptx", "writing", built.doc)
     IN IF built.threw THEN
          /\ exports' = Append(exports, catch(e, "build"))
          /\ finallyPPTX
        ELSE
          /\ exports' = Append(exports, e)
          /\ SetPPTX(TRUE)
  /\ UNCHANGED <<app, review, slides, system, mounted, currentIndex, isFullscreen,
                 fullscreenElement, isExportingPDF, rendered>>

\* pptx.writeFile settles.
WriteFileDone ==
  \E k \in DOMAIN exports, ok \in BOOLEAN :
    /\ exports[k].pc = "writing"
    /\ exports' = [exports EXCEPT
                     ![k] = IF ok THEN [@ EXCEPT !.pc = "done", !.saved = TRUE]
                            ELSE catch(@, "write")]
    /\ finallyPPTX
    /\ UNCHANGED <<app, review, slides, system, mounted, currentIndex, isFullscreen,
                   fullscreenElement, isExportingPDF, rendered>>

\* ----------------------------------------------------------- specification
Navigate ==
  \/ KeyDown
  \/ ClickPrevious
  \/ ClickNext
  \/ ClickThumbnail

Next ==
  \/ Commit
  \/ KeyDown
  \/ ClickPrevious
  \/ ClickNext
  \/ ClickThumbnail
  \/ ClickClose
  \/ toggleFullscreen
  \/ handleExportPDF
  \/ TimerFire
  \/ CanvasDone
  \/ handleExportPPTX
  \/ WriteFileDone

Spec == Init /\ [][Next]_vars

\* The event loop runs every due timer and settles every promise; React
\* commits every scheduled render.
FairSpec ==
  /\ Spec
  /\ WF_vars(Commit)
  /\ SF_vars(TimerFire)
  /\ WF_vars(CanvasDone)
  /\ WF_vars(WriteFileDone)

\* The viewer together with the loading of the assets of the off-screen
\* render, which takes any length of time.
NextLoad ==
  \/ Next
  \/ AssetsLoaded

SpecLoad == Init /\ [][NextLoad]_vars

\* The theme resolver, the layout engine and the native exporter's per-slide
\* rules over every deck and design system, the viewer showing one slide at
\* a time.
InitTheme == InitWith(DecksUpTo(SlideTypes, ThemeMaxSlides), DesignSystems(Masters))

NextTheme ==
  \/ KeyDown
  \/ ClickPrevious
  \/ ClickNext
  \/ ClickThumbnail

SpecTheme == InitTheme /\ [][NextTheme]_vars

\* The logo and the end-slide block over every logo specification, every
\* end-slide setting and masters of every text color.
InitBrand ==
  InitWith(ViewerDecks(ThemeMaxSlides),
           DesignSystemsWith(BrandMasters, LogoSpecs, PresentationSettings))

SpecBrand == InitBrand /\ [][NextTheme]_vars

\* The native exporter's background rules over masters with hex and gradient
\* backgrounds and with embedded, remote and absent background images.
InitNative == InitWith(ViewerDecks(ThemeMaxSlides), DesignSystems(NativeMasters))

SpecNative == InitNative /\ [][NextTheme]_vars

\* The viewer's fullscreen handling together with the platform: the
\* fullscreen button, the keys, the close button and the platform's own exit.
NextFullscreen ==
  \/ Commit
  \/ KeyDown
  \/ ClickClose
  \/ toggleFullscreen
  \/ fullscreenExit

SpecFullscreen == Init /\ [][NextFullscreen]_vars

\* -------------------------------------------------------------------- App
\* The two App components of src/components/DesignReview.tsx.
AppVariants == {1, 2}

\* What the generation collaborator does: the call throws, the response has
\* no text, the text is not JSON, the JSON has no slides member, or it has a
\* slides array, which may be empty.
Responses ==
  [kind : {"throws", "noText", "unparseable", "missingSlides"}, slides : {<<>>}]
    \cup [kind : {"slides"}, slides : ViewerDecks(MaxSlides) \cup {<<>>}]

\* generatePresentationContent: every failure inside its try block is
\* rethrown; a JSON object without slides is returned as undefined.
generatePresentationContent(resp) ==
  IF resp.kind \in {"throws", "noText", "unparseable"}
    THEN [threw |-> TRUE, defined |-> FALSE, slides |-> <<>>]
  ELSE IF resp.kind = "missingSlides"
    THEN [threw |-> FALSE, defined |-> FALSE, slides |-> <<>>]
  ELSE [threw |-> FALSE, defined |-> TRUE, slides |-> resp.slides]

\* The DesignReview is on screen: in the 'review' state, and in the first
\* App in the 'generating' state too.
ReviewMounted == app.state \in {"review", "generating"}

\* FileReader.onloadend of a logo upload, in either DesignReview.
UploadedLogo == "data:upload"

handleLogoUpload ==
  \E type \in {"light", "dark"} :
    /\ ReviewMounted
    /\ review' =
         IF review.variant = 1
           THEN (IF type = "light" THEN [review EXCEPT !.lightLogo = UploadedLogo]
                 ELSE [review EXCEPT !.darkLogo = UploadedLogo])
           ELSE (IF type = "light"
                   THEN [review EXCEPT !.localSystem.logo.images.light = UploadedLogo]
                 ELSE [review EXCEPT !.localSystem.logo.images.dark = UploadedLogo])
    /\ UNCHANGED <<app, slides, system, mounted, currentIndex, isFullscreen,
                   fullscreenElement, isExportingPDF, isExportingPPTX, rendered,
                   exports>>

\* FileReader.onloadend of the second DesignReview's video upload: the video
\* is put into the title master and into the section master.
UploadedVideo == "data:video"

handleVideoUpload ==
  /\ ReviewMounted
  /\ review.variant = 2
  /\ review' =
       [review EXCEPT
          !.localSystem.masters.title.backgroundVideo = UploadedVideo,
          !.localSystem.masters.section.backgroundVideo = UploadedVideo]
  /\ UNCHANGED <<app, slides, system, mounted, currentIndex, isFullscreen,
                 fullscreenElement, isExportingPDF, isExportingPPTX, rendered,
                 exports>>

\* handleGenerate up to its await: setDesignSystem(updatedSystem) and the
\* start of the generation.  The button that calls it is disabled while a
\* generation is running.
handleGenerate(updated) ==
  /\ app.state = "review" /\ ~app.isLoading
  /\ system' = updated
  /\ app' = IF app.variant = 1
              THEN [app EXCEPT !.state = "generating", !.error = Undefined,
                               !.outcome = "none"]
              ELSE [app EXCEPT !.isLoading = TRUE, !.error = Undefined,
                               !.outcome = "none"]
  /\ UNCHANGED <<review, slides, mounted, currentIndex, isFullscreen,
                 fullscreenElement, isExportingPDF, isExportingPPTX, rendered,
                 exports>>

\* The first DesignReview's button: onConfirm(topic, updatedSystem).
handleGenerateClick ==
  /\ review.variant = 1
  /\ handleGenerate(updatedSystem(system, review.lightLogo, review.darkLogo))

\* The second DesignReview's button: onConfirm(topic, localSystem).
ConfirmClick ==
  /\ review.variant = 2
  /\ handleGenerate(review.localSystem)

\* The first App shows the deck only if slides && slides.length > 0.
showPresentation1(r) == ~r.threw /\ r.defined /\ Len(r.slides) > 0

\* The second App shows whatever the collaborator returned without throwing.
showPresentation2(r) == ~r.threw

\* handleGenerate after its await.  A DeckViewer given no slide fails in its
\* first render (slides[0] is undefined) and is not on screen.
GenerationDone ==
  \E resp \in Responses :
    /\ app.state = "generating" \/ app.isLoading
    /\ LET r == generatePresentationContent(resp)
           outcome == IF resp.kind = "slides" /\ Len(resp.slides) > 0
                        THEN "ok" ELSE "failed"
           show == IF app.variant = 1 THEN showPresentation1(r)
                   ELSE showPresentation2(r)
       IN IF show THEN
            /\ app' = [app EXCEPT !.state = "presentation", !.isLoading = FALSE,
                                  !.outcome = outcome]
            /\ slides' = r.slides
            /\ mounted' = (Len(r.slides) > 0)
            /\ review' = MountReview(review.variant, system)
          ELSE
            /\ app' = [app EXCEPT !.state = "review", !.isLoading = FALSE,
                                  !.outcome = outcome,
                                  !.error = "Generation failed"]
            /\ UNCHANGED <<review, slides, mounted>>
    /\ UNCHANGED <<system, currentIndex, isFullscreen, fullscreenElement,
                   isExportingPDF, isExportingPPTX, rendered, exports>>

InitApp ==
  /\ app \in [variant : AppVariants, state : {"review"}, isLoading : {FALSE},
               error : {Undefined}, outcome : {"none"}]
  /\ slides = <<>>
  /\ system \in DesignSystems(ViewerMasters)
  /\ review \in {MountReview(v, system) : v \in ReviewVariants}
  /\ mounted = FALSE
  /\ currentIndex = 0
  /\ isFullscreen = FALSE
  /\ fullscreenElement = FALSE
  /\ isExportingPDF = FALSE
  /\ isExportingPPTX = FALSE
  /\ rendered = [pdf |-> FALSE, pptx |-> FALSE, fullscreen |-> FALSE]
  /\ exports = <<>>

NextApp ==
  \/ handleLogoUpload
  \/ handleVideoUpload
  \/ handleGenerateClick
  \/ ConfirmClick
  \/ GenerationDone
  \/ KeyDown
  \/ ClickPrevious
  \/ ClickNext
  \/ ClickThumbnail
  \/ ClickClose
  \/ toggleFullscreen

SpecApp == InitApp /\ [][NextApp]_vars

\* ------------------------------------------------------------------ claims
LastIndex == total - 1

SlideAt(k) == slides[k + 1]

\* C1: in every deck of more than one slide the live renderer (each of its
\* three variants) lays out the slide at index total-1 with the end-slide
\* layout, whatever its declared type.
C1_LastSlideGetsEndLayout ==
  \A v \in Variants :
    total > 1 => renderContent(v, SlideAt(LastIndex), LastIndex, total) = "end"

\* C2: the only slide of a one-slide deck is not an end slide, for the live
\* renderer and for the native exporter: its layout is not the closing one,
\* and its master, layout and page-number decision are those the same slide
\* gets at a position that is not the last of its deck.
C2_SingleSlideIsNotEndSlide ==
  total = 1 =>
    LET s == SlideAt(0)
        m == system.masters
    IN /\ \A v \in Variants :
            /\ renderContent(v, s, 0, 1) # "end"
            /\ renderContent(v, s, 0, 1) = renderContent(v, s, 0, 2)
            /\ masterStyle(v, s, 0, 1, m) = masterStyle(v, s, 0, 2, m)
            /\ pageNumber(v, s, 0, 1) = pageNumber(v, s, 0, 2)
       /\ pptxContent(s, 0, 1) # "end"
       /\ pptxContent(s, 0, 1) = pptxContent(s, 0, 2)
       /\ pptxMaster(s, 0, 1, m) = pptxMaster(s, 0, 2, m)
       /\ pptxPageNumber(s, 0, 1) = pptxPageNumber(s, 0, 2)

C2_Witness ==
  /\ total = 1
  /\ currentIndex = 0
  /\ SlideAt(0).type = "content"
  /\ system.masters.title # system.masters.default

\* C3: for every slide of the deck the live renderer selects masters.title
\* for a title slide or the end slide, else masters.section (masters.title
\* when the section master is absent) for a section slide, else
\* masters.default.
C3_MasterSelection ==
  \A v \in Variants, k \in 0..LastIndex :
    LET m == system.masters
        s == SlideAt(k)
        end == k = LastIndex /\ total > 1
    IN masterStyle(v, s, k, total, m) =
         IF s.type = "title" \/ end THEN m.title
         ELSE IF s.type = "section"
           THEN (IF m.section = NoMaster THEN m.title ELSE m.section)
         ELSE m.default

C3_Witness ==
  /\ total > 1
  /\ currentIndex = LastIndex
  /\ SlideAt(currentIndex).type = "section"
  /\ system.masters.section # NoMaster

\* C10: in the live renderer (each variant), a selected master with a
\* background image or video resolves the text color to #FFFFFF with the
\* shadow active; one with neither resolves it to the master's textColor
\* with no shadow.
C10_ContrastResolution ==
  \A v \in Variants, k \in 0..LastIndex :
    LET m == masterStyle(v, SlideAt(k), k, total, system.masters)
    IN IF Truthy(m.backgroundImage) \/ Truthy(m.backgroundVideo)
       THEN contentColor(v, m) = "#FFFFFF" /\ textShadow(v, m) # "none"
       ELSE contentColor(v, m) = m.textColor /\ textShadow(v, m) = "none"

\* An export is in progress and the committed render shows it.
ExportShown == isExporting /\ (isExportingPDF \/ isExportingPPTX)

\* C4: at most one export is in flight at any time.
C4_OneExportInFlight ==
  Cardinality({k \in DOMAIN exports : InFlight(exports[k])}) <= 1

\* C5: every accepted export eventually ends with the in-progress flag of
\* its kind released.
C5_FlagReleased ==
  \A k \in 1..MaxExports :
    (k \in DOMAIN exports /\ InFlight(exports[k]))
      ~> (/\ k \in DOMAIN exports
          /\ ~InFlight(exports[k])
          /\ IF exports[k].kind = "pdf" THEN ~isExportingPDF ELSE ~isExportingPPTX)

C5_Witness ==
  /\ Len(exports) = 2
  /\ exports[1].pc = "done" /\ exports[1].alerted
  /\ InFlight(exports[2])
  /\ exports[2].kind = "pdf" /\ isExportingPDF /\ ~isExportingPPTX

\* C6: while an export is in progress no navigation input (a key, the
\* previous and next buttons, a thumbnail) changes currentIndex or closes
\* the deck.
C6_NavigationIgnoredWhileExporting ==
  [][(ExportShown /\ Navigate) => UNCHANGED <<currentIndex, mounted>>]_vars

C7_IndexInRange == currentIndex \in 0..LastIndex

\* A step of next: the next button, or ArrowRight handled outside an export.
C7_NextStep ==
  (ClickNext \/ (~isExporting /\ handleKeyDown("ArrowRight")))
    => currentIndex' = IF currentIndex = LastIndex THEN currentIndex
                       ELSE currentIndex + 1

\* A step of previous: the previous button, or ArrowLeft outside an export.
C7_PreviousStep ==
  (ClickPrevious \/ (~isExporting /\ handleKeyDown("ArrowLeft")))
    => currentIndex' = IF currentIndex = 0 THEN currentIndex ELSE currentIndex - 1

\* C7: currentIndex stays within [0, total-1] whatever is done; next at the
\* last index and previous at index 0 change nothing, and otherwise they
\* move it by exactly one.
C7_ClampedNavigation ==
  /\ []C7_IndexInRange
  /\ [][C7_IndexInRange' /\ C7_NextStep /\ C7_PreviousStep]_vars

C7_Witness == total = MaxSlides /\ currentIndex = LastIndex /\ mounted

\* C8: a raster export in which rasterizing a slide failed has saved no
\* document and has reported the failure.
C8_RasterFailureSavesNothing ==
  \A k \in DOMAIN exports :
    (exports[k].kind = "pdf" /\ exports[k].error = "canvas")
      => ~exports[k].saved /\ exports[k].alerted /\ ~InFlight(exports[k])

C8_Witness ==
  \E k \in DOMAIN exports :
    exports[k].kind = "pdf" /\ exports[k].error = "canvas" /\ total > 1

OneUnitPerSlide == [k \in 1..total |-> <<slides[k].id>>]

\* C9: a saved document holds exactly one unit per slide, in deck order:
\* page (or slide object) k is built from slide k alone, and no empty page
\* precedes the first.
C9_OneUnitPerSlideInOrder ==
  \A k \in DOMAIN exports : exports[k].saved => exports[k].doc = OneUnitPerSlide

C9_Witness ==
  /\ total = MaxSlides
  /\ \E j, k \in DOMAIN exports :
       /\ exports[j].saved /\ exports[j].kind = "pdf"
       /\ exports[k].saved /\ exports[k].kind = "pptx"

\* C11: a section slide that is not the end slide, in a design system
\* without a section master, is rendered by the live renderer (each variant)
\* with masters.title as its master: the master's background, text color and
\* accent are those of masters.title.
C11_SectionFallsBackToTitle ==
  \A v \in Variants, k \in 0..LastIndex :
    LET m == system.masters
        r == masterStyle(v, SlideAt(k), k, total, m)
    IN (SlideAt(k).type = "section" /\ ~(k = LastIndex /\ total > 1)
          /\ m.section = NoMaster)
         => /\ r = m.title
            /\ slideBackground(r) = slideBackground(m.title)
            /\ r.textColor = m.title.textColor
            /\ r.accentColor = m.title.accentColor

C11_Witness ==
  /\ SlideAt(currentIndex).type = "section"
  /\ total > 1 /\ currentIndex = LastIndex - 1
  /\ system.masters.section = NoMaster
  /\ slideBackground(system.masters.title) # slideBackground(system.masters.default)

IsWhite(c) == c \in {"#FFFFFF", "#ffffff"}

\* C12: in the live renderer (each variant) placement 'none' renders no
\* logo; otherwise the asset rendered is the light one when the resolved
\* text color is white and the dark one when it is not, the other asset when
\* that one is absent, and none when both are absent; white text with the
\* dark asset alone shows the dark asset with the inversion filter.
C12_LogoSelection ==
  \A v \in Variants, k \in 0..LastIndex :
    LET m == masterStyle(v, SlideAt(k), k, total, system.masters)
        white == IsWhite(contentColor(v, m))
        images == system.logo.images
        preferred == IF white THEN images.light ELSE images.dark
        other == IF white THEN images.dark ELSE images.light
        r == Logo(v, m, system.logo)
    IN /\ r.src = IF system.logo.placement = "none" THEN Undefined
                  ELSE IF preferred # Undefined THEN preferred ELSE other
       /\ (system.logo.placement # "none" /\ white
             /\ images.light = Undefined /\ images.dark # Undefined)
            => r = [src |-> images.dark, filter |-> "brightness(0) invert(1)"]

\* C13: in the live renderer (each variant) a rendered asset of the polarity
\* of its background carries a filter: the dark asset under white text, and
\* the light asset under text that is not white.
C13_FallbackAlwaysFiltered ==
  \A v \in Variants, k \in 0..LastIndex :
    LET m == masterStyle(v, SlideAt(k), k, total, system.masters)
        white == IsWhite(contentColor(v, m))
        r == Logo(v, m, system.logo)
    IN /\ (white /\ r.src = "data:dark") => r.filter # "none"
       /\ (~white /\ r.src = "data:light") => r.filter # "none"

NoExport == mounted /\ ~isExporting /\ ~isExportingPDF /\ ~isExportingPPTX

\* The key events of the contract: KeyboardEvent.key of the right-arrow key,
\* the space bar and the left-arrow key.
RightArrowKey == "ArrowRight"

SpaceBarKey == " "

LeftArrowKey == "ArrowLeft"

\* C15: outside an export, the keydown of the right-arrow key and of the
\* space bar moves currentIndex as next does, and the keydown of the
\* left-arrow key moves it as previous does.
C15_KeyboardContract ==
  NoExport =>
    /\ ENABLED (/\ handleKeyDown(RightArrowKey)
                /\ currentIndex' = Min(currentIndex + 1, LastIndex))
    /\ ENABLED (/\ handleKeyDown(SpaceBarKey)
                /\ currentIndex' = Min(currentIndex + 1, LastIndex))
    /\ ENABLED (/\ handleKeyDown(LeftArrowKey)
                /\ currentIndex' = Max(currentIndex - 1, 0))

C17_SnapshotFollowsLoad ==
  \A k \in DOMAIN exports :
    (exports[k].kind = "pdf" /\ exports[k].pc = "canvas") => exports[k].loaded

\* C18: a generation in which the collaborator threw, returned no text or
\* unparseable text, or returned a missing or empty slide list leaves the
\* App in the 'review' state with an error surfaced, and the App is never in
\* the 'presentation' state with a deck of zero slides.
C18_FailedGenerationReturnsToReview ==
  /\ app.state = "presentation" => Len(slides) > 0
  /\ app.outcome = "failed" => (app.state = "review" /\ app.error # Undefined)

\* C19: the accent color of a slide's decorations is the accentColor of
\* the master selected for the slide, in the live renderer (each variant)
\* and in the native exporter.
C19_AccentOfSelectedMaster ==
  \A k \in 0..LastIndex :
    LET m == system.masters
        s == SlideAt(k)
        end == k = LastIndex /\ total > 1
        selected == IF s.type = "title" \/ end THEN m.title
                    ELSE IF s.type = "section"
                      THEN (IF m.section = NoMaster THEN m.title ELSE m.section)
                    ELSE m.default
    IN /\ \A v \in Variants :
            accentStyle(masterStyle(v, s, k, total, m)) = selected.accentColor
       /\ pptxAccentColor(system) = selected.accentColor

\* C20: where the end-slide block is rendered, in the live renderer (each
\* variant) and in the native exporter, its heading is settings.endSlide.title
\* when one is set and 'Thank You!' otherwise, and its second line is the
\* configured subtitle, present only when one is configured.
C20_EndSlideTexts ==
  total > 1 =>
    LET s == SlideAt(LastIndex)
        cfg == system.settings.endSlide
        expected ==
          [title |-> IF Truthy(cfg.title) THEN cfg.title ELSE "Thank You!",
           subtitle |-> IF Truthy(cfg.subtitle) THEN cfg.subtitle ELSE Undefined]
    IN /\ \A v \in Variants :
            renderContent(v, s, LastIndex, total) = "end"
              => endSlide(v, s, system.settings) = expected
       /\ pptxContent(s, LastIndex, total) = "end"
            => pptxEndSlide(s, system.settings) = expected

\* C21: in the native exporter the last slide of a deck of more than one
\* slide gets the closing-slide objects, whatever its declared type.
C21_ExporterEndOverride ==
  total > 1 => pptxContent(SlideAt(LastIndex), LastIndex, total) = "end"

\* The section slides that are not the end slide.
NonFinalSections ==
  {k \in 0..LastIndex : SlideAt(k).type = "section" /\ ~(k = LastIndex /\ total > 1)}

\* C22: a native export of a deck with a non-final section slide, in a
\* design system without a section master, selects masters.title for that
\* slide and does not fail while building the document: once pptx.writeFile
\* has succeeded, a document with every slide is saved.
C22_ExporterSectionFallback ==
  \A j \in DOMAIN exports :
    (exports[j].kind = "pptx" /\ NonFinalSections # {}
       /\ system.masters.section = NoMaster)
      => /\ \A k \in NonFinalSections :
              pptxMaster(SlideAt(k), k, total, system.masters) = system.masters.title
         /\ exports[j].error # "build"
         /\ (exports[j].pc = "done" /\ exports[j].error = "none")
              => (exports[j].saved /\ Len(exports[j].doc) = total)

\* A background color of low luminance (hex digits without #).
IsDarkColor(color) == color # Undefined /\ ~isColorLight("#" \o color)

\* C23: in the native exporter a selected master whose background is not a
\* hex color and that has no background image is exported with a flat
\* background color, and that color is dark.
C23_GradientDegradesToDark ==
  \A k \in 0..LastIndex :
    LET m == pptxMaster(SlideAt(k), k, total, system.masters)
    IN (m # NoMaster /\ ~startsWith(m.background, "#") /\ ~Truthy(m.backgroundImage))
         => /\ pptxBackground(m).data = Undefined
            /\ IsDarkColor(pptxBackground(m).color)

\* C24: in the native exporter a selected master with an embedded (data
\* URL) background image is exported with that image as the slide
\* background, whether its background field is a hex color or not.
C24_ImageBeforeColor ==
  \A k \in 0..LastIndex :
    LET m == pptxMaster(SlideAt(k), k, total, system.masters)
    IN (m # NoMaster /\ Truthy(m.backgroundImage)
          /\ startsWith(m.backgroundImage, "data:"))
         => pptxBackground(m) = [color |-> Undefined, data |-> m.backgroundImage]

\* C25: for every slide the native exporter builds, the logo asset it adds
\* (the light one, the dark one or none) is the asset the live renderer
\* (each variant) renders for that slide.
C25_ExporterLogoMatchesRenderer ==
  \A v \in Variants, k \in 0..LastIndex :
    LET s == SlideAt(k)
        pm == pptxMaster(s, k, total, system.masters)
        rm == masterStyle(v, s, k, total, system.masters)
    IN pm # NoMaster => pptxLogo(pm, system.logo) = Logo(v, rm, system.logo).src

\* C26: for every slide the native exporter builds, it places a page-number
\* caption exactly when the live renderer (each variant) shows one, that is
\* when the slide is not a title slide, not a section slide and not the end
\* slide, and the caption reads '<index+1> / <total>'.
C26_ExporterPageNumberMatchesRenderer ==
  \A k \in 0..LastIndex :
    LET s == SlideAt(k)
        shown == s.type # "title" /\ s.type # "section" /\ ~(k = LastIndex /\ total > 1)
    IN ~pptxThrows(s, k, total, system.masters)
         => /\ \A v \in Variants : pptxCaption(s, k, total) = caption(v, s, k, total)
            /\ pptxCaption(s, k, total) =
                 IF shown THEN ToString(k + 1) \o " / " \o ToString(total) ELSE Undefined

\* C27: for every slide the native exporter builds, the color of its text
\* objects is the text color the live renderer (each variant) resolves for
\* that slide: white when the selected master has a background image or
\* video, the master's textColor otherwise.
C27_ExporterTextColorMatchesRenderer ==
  \A k \in 0..LastIndex :
    LET s == SlideAt(k)
        pm == pptxMaster(s, k, total, system.masters)
    IN pm # NoMaster
         => /\ \A v \in Variants :
                 pptxTextColor(pm) =
                   contentColor(v, masterStyle(v, s, k, total, system.masters))
            /\ pptxTextColor(pm) =
                 IF Truthy(pm.backgroundImage) \/ Truthy(pm.backgroundVideo)
                   THEN "#FFFFFF" ELSE pm.textColor

\* C28: a raster export that has ended has either saved a complete document
\* (one page per slide) or reported a failure to the user.
C28_RasterExportNeverSilent ==
  \A k \in DOMAIN exports :
    (exports[k].kind = "pdf" /\ exports[k].pc = "done")
      => \/ exports[k].saved /\ exports[k].doc = OneUnitPerSlide
         \/ exports[k].alerted

\* The design system handed to onConfirm (and stored by the App) differs
\* from the input in nothing but the logo images and the uploaded video.
C29_Frame ==
  /\ system'.name = system.name
  /\ system'.colors = system.colors
  /\ system'.settings = system.settings
  /\ system'.logo.placement = system.logo.placement
  /\ system'.masters.default = system.masters.default
  /\ system'.masters.title \in
       {system.masters.title,
        [system.masters.title EXCEPT !.backgroundVideo = UploadedVideo]}

\* C29: confirming the configuration hands onConfirm a design system whose
\* masters.section is the input's: an absent section master stays absent,
\* and a present one differs at most by an uploaded video; nothing else
\* than the logo images and uploaded assets differs from the input.
C29_NoMergedSectionMaster ==
  [][(handleGenerateClick \/ ConfirmClick)
       => /\ C29_Frame
          /\ system'.masters.section \in
               IF system.masters.section = NoMaster THEN {NoMaster}
               ELSE {system.masters.section,
                     [system.masters.section EXCEPT !.backgroundVideo = UploadedVideo]}]_vars

\* C30: while the deck viewer is open, its fullscreen flag is true exactly
\* when the document is in fullscreen, whatever sequence of fullscreen
\* toggles, key presses and platform-initiated exits came before.
C30_FlagEqualsPlatformFullscreen ==
  mounted => (isFullscreen <=> fullscreenElement)

====
